---- MODULE Spec2Model ----
(***************************************************************************)
(* A model of the NTFS MFT scanner of src/src/ntfs_logic.rs.               *)
(*                                                                         *)
(* Representation.  A byte slice is a record [m, base, len]: m maps the    *)
(* absolute offsets of the image that hold a non-zero byte to that byte    *)
(* (every other offset reads 0), and the slice is the window               *)
(* base .. base+len-1.  Sub-slicing moves the window, as &buf[a..b] does.   *)
(* u16 values are integers.  u32, u64 and i64 values are kept as their     *)
(* little-endian bytes (4 or 8 of them): the model checker's integers are  *)
(* 32-bit, so 64-bit arithmetic is done on the bytes, with the width the   *)
(* code has.  A String is the sequence of its Unicode scalar values.       *)
(* usize is taken to be 64 bits wide (the tool maps whole disk images), so *)
(* offset arithmetic on usize does not wrap.                               *)
(***************************************************************************)
EXTENDS Integers, Sequences, FiniteSets, TLC

\* ------------------------------------------------------------------------
\* Option<T>, and the abort of the process by a panic

None == [tag |-> "None"]

Some(x) == [tag |-> "Some", v |-> x]

Panic == [tag |-> "Panic"]

IsNone(o) == o.tag = "None"

IsSome(o) == o.tag = "Some"

IsPanic(o) == o.tag = "Panic"

\* ------------------------------------------------------------------------
\* Byte slices

\* buf.len()
SliceLen(s) == s.len

\* buf[i], for an i the caller has checked to be < buf.len()
Byte(s, i) ==
    LET a == s.base + i
    IN  IF a \in DOMAIN s.m THEN s.m[a] ELSE 0

\* whether the range a..b is one Rust accepts for this slice (else: panic)
InRange(s, a, b) == a <= b /\ b <= s.len

\* &buf[a..b]
Sub(s, a, b) == [m |-> s.m, base |-> s.base + a, len |-> b - a]

\* the n bytes of buf[a..a+n], as a tuple
Bytes(s, a, n) == [k \in 1 .. n |-> Byte(s, a + k - 1)]

\* u16::from_le_bytes
U16(s, a) == Byte(s, a) + 256 * Byte(s, a + 1)

\* the tuple of 2-byte little-endian code units of raw (chunks_exact(2))
CodeUnits(s, a, n) == [k \in 1 .. n |-> U16(s, a + 2 * (k - 1))]

\* ------------------------------------------------------------------------
\* Unsigned integers kept as little-endian bytes

IsZero(bs) == \A k \in 1 .. Len(bs) : bs[k] = 0

\* whether the value is below 2^31 (an integer of the model)
Fits(bs) == \A k \in 1 .. Len(bs) : (k > 4 => bs[k] = 0) /\ (k = 4 => bs[k] < 128)

RECURSIVE ToNat(_)
ToNat(bs) == IF bs = << >> THEN 0 ELSE bs[1] + 256 * ToNat(Tail(bs))

\* "a + (v as usize) > limit" for a u32 v given by its bytes; limit < 2^31
AddExceeds(a, bs, limit) == ~Fits(bs) \/ a + ToNat(bs) > limit

\* bit k (0..7) of a byte
Bit(b, k) == (b \div (2 ^ k)) % 2 = 1

\* long division of an unsigned little-endian value by a small d (d < 2^23):
\* <<quotient bytes, remainder>>
RECURSIVE DivSmall(_, _)
DivSmall(bs, d) ==
    IF bs = << >> THEN << << >>, 0 >>
    ELSE LET hi  == DivSmall(Tail(bs), d)
             cur == hi[2] * 256 + bs[1]
         IN  << <<cur \div d>> \o hi[1], cur % d >>

\* xs + ys + c on little-endian values of Len(xs) bytes, the carry out dropped
RECURSIVE AddCarry(_, _, _)
AddCarry(xs, ys, c) ==
    IF xs = << >> THEN << >>
    ELSE LET t == xs[1] + ys[1] + c
         IN  <<t % 256>> \o AddCarry(Tail(xs), Tail(ys), t \div 256)

Complement(bs) == [k \in 1 .. Len(bs) |-> 255 - bs[k]]

Zeros(n) == [k \in 1 .. n |-> 0]

\* two's-complement negation of a little-endian value of Len(bs) bytes
Negate(bs) == AddCarry(Complement(bs), Zeros(Len(bs)), 1)

\* the sign bit of a little-endian two's-complement value
IsNegative(bs) == bs[Len(bs)] >= 128

\* ------------------------------------------------------------------------
\* String::from_utf16: None on an unpaired surrogate, else the scalar values

RECURSIVE DecodeUtf16(_)
DecodeUtf16(us) ==
    IF us = << >> THEN Some(<< >>)
    ELSE LET u == us[1]
         IN  IF u < 55296 \/ u > 57343
             THEN LET r == DecodeUtf16(Tail(us))
                  IN  IF IsNone(r) THEN None ELSE Some(<<u>> \o r.v)
             ELSE IF u >= 56320 \/ Len(us) < 2 THEN None
             ELSE LET w == us[2]
                  IN  IF w < 56320 \/ w > 57343 THEN None
                      ELSE LET r == DecodeUtf16(Tail(Tail(us)))
                               c == 65536 + (u - 55296) * 1024 + (w - 56320)
                           IN  IF IsNone(r) THEN None ELSE Some(<<c>> \o r.v)

from_utf16(us) == DecodeUtf16(us)

\* String::from_utf8: None on an ill-formed sequence, else the scalar values

IsCont(b) == b >= 128 /\ b <= 191

RECURSIVE DecodeUtf8(_)
DecodeUtf8(bs) ==
    IF bs = << >> THEN Some(<< >>)
    ELSE LET b == bs[1]
             n == IF b < 128 THEN 1
                  ELSE IF b >= 194 /\ b <= 223 THEN 2
                  ELSE IF b >= 224 /\ b <= 239 THEN 3
                  ELSE IF b >= 240 /\ b <= 244 THEN 4
                  ELSE 0
         IN  IF n = 0 \/ Len(bs) < n THEN None
             ELSE IF \E k \in 2 .. n : ~IsCont(bs[k]) THEN None
             ELSE IF n = 3 /\ b = 224 /\ bs[2] < 160 THEN None
             ELSE IF n = 3 /\ b = 237 /\ bs[2] > 159 THEN None
             ELSE IF n = 4 /\ b = 240 /\ bs[2] < 144 THEN None
             ELSE IF n = 4 /\ b = 244 /\ bs[2] > 143 THEN None
             ELSE LET c == IF n = 1 THEN b
                           ELSE IF n = 2 THEN (b - 192) * 64 + (bs[2] - 128)
                           ELSE IF n = 3
                           THEN (b - 224) * 4096 + (bs[2] - 128) * 64 + (bs[3] - 128)
                           ELSE (b - 240) * 262144 + (bs[2] - 128) * 4096
                                + (bs[3] - 128) * 64 + (bs[4] - 128)
                      r == DecodeUtf8(SubSeq(bs, n + 1, Len(bs)))
                  IN  IF IsNone(r) THEN None ELSE Some(<<c>> \o r.v)

from_utf8(bs) == DecodeUtf8(bs)

\* a value below 2^31 as w little-endian bytes ("as u64", to_le_bytes)
RECURSIVE NatBytes(_, _)
NatBytes(n, w) == IF w = 0 THEN << >> ELSE <<n % 256>> \o NatBytes(n \div 256, w - 1)

\* ------------------------------------------------------------------------
\* Constants of the program

MFT_MAGIC == <<70, 73, 76, 69>>

ATTR_STANDARD_INFORMATION == <<16, 0, 0, 0>>

ATTR_FILE_NAME == <<48, 0, 0, 0>>

ATTR_OBJECT_ID == <<64, 0, 0, 0>>

ATTR_DATA == <<128, 0, 0, 0>>

ATTR_REPARSE_POINT == <<192, 0, 0, 0>>

ATTR_EA_INFORMATION == <<208, 0, 0, 0>>

ATTR_END == <<255, 255, 255, 255>>

\* record_size of scan_ntfs_image
RECORD_SIZE == 1024

\* the stride of scan_ntfs_image
SCAN_STEP == 8

\* ------------------------------------------------------------------------
\* FileAttributes::from_flags: flags is a u32, by its bytes

from_flags(flags) ==
    [readonly            |-> Bit(flags[1], 0),
     hidden              |-> Bit(flags[1], 1),
     system              |-> Bit(flags[1], 2),
     directory           |-> Bit(flags[1], 4),
     archive             |-> Bit(flags[1], 5),
     device              |-> Bit(flags[1], 6),
     normal              |-> Bit(flags[1], 7),
     temporary           |-> Bit(flags[2], 0),
     sparse_file         |-> Bit(flags[2], 1),
     reparse_point       |-> Bit(flags[2], 2),
     compressed          |-> Bit(flags[2], 3),
     offline             |-> Bit(flags[2], 4),
     not_content_indexed |-> Bit(flags[2], 5),
     encrypted           |-> Bit(flags[2], 6)]

\* ------------------------------------------------------------------------
\* parse_attr_header: None, or Some of (attr_type, length, non_resident, attr_name)

parse_attr_header(buf, offset) ==
    IF offset + 16 > SliceLen(buf) THEN None
    ELSE LET attr_type == Bytes(buf, offset, 4)
         IN  IF attr_type = ATTR_END THEN None
             ELSE LET length == Bytes(buf, offset + 4, 4)
                  IN  IF IsZero(length) \/ AddExceeds(offset, length, SliceLen(buf))
                      THEN None
                      ELSE LET non_resident == Byte(buf, offset + 8) # 0
                               name_length  == Byte(buf, offset + 9)
                               name_offset  == U16(buf, offset + 10)
                               attr_name ==
                                   IF name_length > 0
                                      /\ offset + name_offset + name_length * 2
                                           <= SliceLen(buf)
                                   THEN from_utf16(CodeUnits(buf, offset + name_offset,
                                                             name_length))
                                   ELSE None
                           IN  Some([attr_type    |-> attr_type,
                                     length       |-> ToNat(length),
                                     non_resident |-> non_resident,
                                     attr_name    |-> attr_name])

\* ------------------------------------------------------------------------
\* parse_filename: None, or Some(FileNameAttr)

parse_filename(attr) ==
    IF SliceLen(attr) < 66 THEN None
    ELSE LET content_offset == U16(attr, 20)
         IN  IF content_offset + 66 > SliceLen(attr) THEN None
             ELSE LET content   == Sub(attr, content_offset, SliceLen(attr))
                      namespace == Byte(content, 65)
                      name_len  == Byte(content, 64)
                      name_off  == 66
                      byte_len  == name_len * 2
                  IN  IF name_off + byte_len > SliceLen(content) THEN None
                      ELSE LET name == from_utf16(CodeUnits(content, name_off, name_len))
                           IN  IF IsNone(name) THEN None
                               ELSE Some([name             |-> name.v,
                                          parent_reference |-> Bytes(content, 0, 8),
                                          namespace        |-> namespace,
                                          allocated_size   |-> Bytes(content, 40, 8),
                                          real_size        |-> Bytes(content, 48, 8)])

\* ------------------------------------------------------------------------
\* parse_resident_data: None, or Some of the content bytes

parse_resident_data(attr) ==
    IF SliceLen(attr) < 24 THEN None
    ELSE LET content_len    == Bytes(attr, 16, 4)
             content_offset == U16(attr, 20)
         IN  IF AddExceeds(content_offset, content_len, SliceLen(attr)) THEN None
             ELSE Some(Bytes(attr, content_offset, ToNat(content_len)))

\* parse_data_attribute, its resident branch
parse_data_attribute_resident(attr, attr_name) ==
    LET data == parse_resident_data(attr)
    IN  IF IsNone(data) THEN None
        ELSE LET size == NatBytes(Len(data.v), 8)
             IN  Some([name           |-> attr_name,
                       resident       |-> TRUE,
                       size           |-> size,
                       allocated_size |-> size,
                       resident_data  |-> from_utf8(data.v),
                       data_runs      |-> None])

\* parse_data_attribute, its non-resident branch, given what parse_data_runs
\* returned; called only for an attribute of at least 64 bytes
parse_data_attribute_non_resident(attr, attr_name, data_runs) ==
    Some([name           |-> attr_name,
          resident       |-> FALSE,
          size           |-> Bytes(attr, 48, 8),
          allocated_size |-> Bytes(attr, 56, 8),
          resident_data  |-> None,
          data_runs      |-> data_runs])

\* ------------------------------------------------------------------------
\* filetime_to_utc.  A DateTime<Utc> is [days, secs, nanos]: the instant
\* 86400 * days + secs seconds after the Unix epoch, and nanos nanoseconds.

WINDOWS_TICK == 10000000

\* SEC_TO_UNIX_EPOCH = 11_644_473_600 seconds = 134774 days of 86400 seconds
SEC_TO_UNIX_EPOCH_DAYS == 134774

\* an unsigned 64-bit value divided by WINDOWS_TICK = 10000 * 1000:
\* [q |-> the quotient's bytes, r |-> the remainder]
DivTickJoin(d1, d2) == [q |-> d2[1], r |-> d2[2] * 10000 + d1[2]]

DivTickStep(d1) == DivTickJoin(d1, DivSmall(d1[1], WINDOWS_TICK \div 10000))

DivTick(bs) == DivTickStep(DivSmall(bs, 10000))

\* Utc.timestamp_opt(seconds, nanos).single() of chrono, for the seconds
\* 86400 * days + secs: None outside chrono's range of dates (the years
\* -262143 .. 262142, about 95.7 million days either side of the epoch)
\* and for nanos it does not accept
timestamp_opt(days, secs, nanos) ==
    IF days < -95000000 \/ days > 95000000 \/ nanos >= 1000000000 THEN None
    ELSE Some([days |-> days, secs |-> secs, nanos |-> nanos])

\* seconds = (ft as i64 / WINDOWS_TICK) - SEC_TO_UNIX_EPOCH, as days and
\* seconds of the day (div_euclid, rem_euclid), from the sign of ft as i64 and
\* the quotient q and remainder r of |ft as i64| / WINDOWS_TICK by 86400
seconds_days(neg, q, r) ==
    IF ~neg THEN q - SEC_TO_UNIX_EPOCH_DAYS
    ELSE IF r = 0 THEN (0 - q) - SEC_TO_UNIX_EPOCH_DAYS
    ELSE (0 - q) - 1 - SEC_TO_UNIX_EPOCH_DAYS

seconds_of_day(neg, r) == IF ~neg \/ r = 0 THEN r ELSE 86400 - r

filetime_convert(neg, dd, nanos) ==
    timestamp_opt(seconds_days(neg, ToNat(dd[1]), dd[2]), seconds_of_day(neg, dd[2]),
                  nanos)

\* |ft as i64|, as an unsigned value
magnitude(ft) == IF IsNegative(ft) THEN Negate(ft) ELSE ft

filetime_to_utc(ft) ==
    IF IsZero(ft) THEN None
    ELSE filetime_convert(IsNegative(ft),
                          DivSmall(DivTick(magnitude(ft)).q, 86400),
                          DivTick(ft).r * 100)

\* ------------------------------------------------------------------------
\* parse_standard_information: Panic, None, or Some of the eight values

\* A faulty variant of standard_information_of: only "created" is required,
\* a timestamp that is absent is taken from it.
standard_information_of_lenient(c, created, modified, mft_modified, accessed) ==
    IF IsNone(created) THEN None
    ELSE Some([c     |-> created.v,
               m     |-> IF IsSome(modified) THEN modified.v ELSE created.v,
               mm    |-> IF IsSome(mft_modified) THEN mft_modified.v ELSE created.v,
               a     |-> IF IsSome(accessed) THEN accessed.v ELSE created.v,
               attrs |-> from_flags(Bytes(c, 32, 4)),
               oid   |-> IF SliceLen(c) >= 56 THEN Some(Bytes(c, 48, 4)) ELSE None,
               sid   |-> IF SliceLen(c) >= 56 THEN Some(Bytes(c, 52, 4)) ELSE None,
               u     |-> IF SliceLen(c) >= 72 THEN Some(Bytes(c, 64, 8)) ELSE None])

\* the "?" on each of the four timestamps, then the tuple
standard_information_of(c, created, modified, mft_modified, accessed) ==
    IF IsNone(created) THEN None
    ELSE IF IsNone(modified) THEN None
    ELSE IF IsNone(mft_modified) THEN None
    ELSE IF IsNone(accessed) THEN None
    ELSE Some([c     |-> created.v,
               m     |-> modified.v,
               mm    |-> mft_modified.v,
               a     |-> accessed.v,
               attrs |-> from_flags(Bytes(c, 32, 4)),
               oid   |-> IF SliceLen(c) >= 56 THEN Some(Bytes(c, 48, 4)) ELSE None,
               sid   |-> IF SliceLen(c) >= 56 THEN Some(Bytes(c, 52, 4)) ELSE None,
               u     |-> IF SliceLen(c) >= 72 THEN Some(Bytes(c, 64, 8)) ELSE None])

\* c = &attr[content_offset..]
standard_information_content(c) ==
    standard_information_of(c,
                            filetime_to_utc(Bytes(c, 0, 8)),
                            filetime_to_utc(Bytes(c, 8, 8)),
                            filetime_to_utc(Bytes(c, 16, 8)),
                            filetime_to_utc(Bytes(c, 24, 8)))

standard_information_at(attr, content_offset) ==
    IF content_offset + 48 > SliceLen(attr) THEN None
    ELSE standard_information_content(Sub(attr, content_offset, SliceLen(attr)))

parse_standard_information(attr) ==
    IF ~InRange(attr, 20, 22) THEN Panic
    ELSE standard_information_at(attr, U16(attr, 20))

\* ------------------------------------------------------------------------
\* parse_object_id: Panic, None, or Some of the formatted GUID

HexDigits == <<"0", "1", "2", "3", "4", "5", "6", "7",
               "8", "9", "a", "b", "c", "d", "e", "f">>

\* {:02x}
Hex2(b) == <<HexDigits[(b \div 16) + 1], HexDigits[(b % 16) + 1]>>

RECURSIVE HexAll(_)
HexAll(bs) == IF bs = << >> THEN << >> ELSE Hex2(bs[1]) \o HexAll(Tail(bs))

format_guid(g) ==
    HexAll(<<g[4], g[3], g[2], g[1]>>) \o <<"-">>
    \o HexAll(<<g[6], g[5]>>) \o <<"-">>
    \o HexAll(<<g[8], g[7]>>) \o <<"-">>
    \o HexAll(<<g[9], g[10]>>) \o <<"-">>
    \o HexAll(<<g[11], g[12], g[13], g[14], g[15], g[16]>>)

parse_object_id(attr) ==
    IF ~InRange(attr, 20, 22) THEN Panic
    ELSE LET content_offset == U16(attr, 20)
         IN  IF content_offset + 16 > SliceLen(attr) THEN None
             ELSE Some(format_guid(Bytes(attr, content_offset, 16)))

\* ------------------------------------------------------------------------
\* parse_reparse_point: Panic, None, or Some of (tag, target)

REPARSE_TAG_SYMLINK == <<12, 0, 0, 160>>

REPARSE_TAG_JUNCTION == <<3, 0, 0, 160>>

parse_reparse_point(attr) ==
    IF ~InRange(attr, 20, 22) THEN Panic
    ELSE LET content_offset == U16(attr, 20)
         IN  IF content_offset + 8 > SliceLen(attr) THEN None
             ELSE LET content == Sub(attr, content_offset, SliceLen(attr))
                      tag     == Bytes(content, 0, 4)
                      target  ==
                          IF (tag = REPARSE_TAG_SYMLINK \/ tag = REPARSE_TAG_JUNCTION)
                             /\ SliceLen(content) >= 20
                          THEN LET substitute_name_offset == U16(content, 8)
                                   substitute_name_length == U16(content, 10)
                                   start == 20 + substitute_name_offset
                                   end   == start + substitute_name_length
                               IN  IF end <= SliceLen(content)
                                   THEN from_utf16(CodeUnits(content, start,
                                            substitute_name_length \div 2))
                                   ELSE None
                          ELSE None
                  IN  Some([tag |-> tag, target |-> target])

\* ------------------------------------------------------------------------
\* parse_data_runs, one turn of its loop.  i64 values are 8 bytes.

\* overflow of a signed addition: the operands agree in sign, the sum does not
SignedOverflows(a, b, sum) ==
    IsNegative(a) = IsNegative(b) /\ IsNegative(sum) # IsNegative(a)

\* the n bytes read into a 64-bit accumulator by "|= (byte as _) << (i * 8)"
ReadLE(attr, at, n) == [k \in 1 .. 8 |-> IF k <= n THEN Byte(attr, at + k - 1) ELSE 0]

\* A faulty variant of SignExtend: the value is left zero-extended.
SignExtend_none(bs, n) == bs

\* the sign extension "|= 0xFF << (i * 8)" for i in n..8
SignExtend(bs, n) ==
    IF n > 0 /\ bs[n] >= 128
    THEN [k \in 1 .. 8 |-> IF k <= n THEN bs[k] ELSE 255]
    ELSE bs

\* The loop body at offset < attr.len(), with the running current_lcn:
\*   [kind |-> "break"],
\*   [kind |-> "overflow"]  (current_lcn += cluster_offset left the i64 range),
\*   [kind |-> "push", offset, current_lcn, run]
data_run_step(attr, offset, current_lcn) ==
    LET header       == Byte(attr, offset)
        length_bytes == header % 16
        offset_bytes == header \div 16
    IN  IF header = 0 THEN [kind |-> "break"]
        ELSE IF length_bytes = 0 \/ length_bytes > 8 \/ offset_bytes > 8
        THEN [kind |-> "break"]
        ELSE IF offset + 1 + length_bytes + offset_bytes > SliceLen(attr)
        THEN [kind |-> "break"]
        ELSE LET cluster_count  == ReadLE(attr, offset + 1, length_bytes)
                 at             == offset + 1 + length_bytes
                 cluster_offset == SignExtend(ReadLE(attr, at, offset_bytes),
                                              offset_bytes)
                 sum            == AddCarry(current_lcn, cluster_offset, 0)
             IN  IF SignedOverflows(current_lcn, cluster_offset, sum)
                 THEN [kind |-> "overflow", offset |-> at + offset_bytes,
                       current_lcn |-> sum,
                       run |-> [cluster_offset |-> sum,
                                cluster_count  |-> cluster_count]]
                 ELSE [kind |-> "push", offset |-> at + offset_bytes,
                       current_lcn |-> sum,
                       run |-> [cluster_offset |-> sum,
                                cluster_count  |-> cluster_count]]

\* ------------------------------------------------------------------------
\* parse_ntfs_record: its locals are one record, the frame of the call

\* the state of the locals when the attribute walk begins
new_frame(record) ==
    [sequence_number   |-> U16(record, 16),
     hardlink_count    |-> U16(record, 18),
     is_in_use         |-> Bit(Byte(record, 22), 0),
     is_directory      |-> Bit(Byte(record, 22), 1),
     mft_record_number |-> Bytes(record, 44, 4) \o Zeros(4),
     offset            |-> U16(record, 20),
     all_filenames     |-> << >>,
     data_streams      |-> << >>,
     created           |-> None,
     modified          |-> None,
     mft_modified      |-> None,
     accessed          |-> None,
     file_attributes   |-> None,
     owner_id          |-> None,
     security_id       |-> None,
     usn               |-> None,
     object_id         |-> None,
     reparse_tag       |-> None,
     reparse_target    |-> None,
     has_ea            |-> FALSE]

\* the entry of parse_ntfs_record, up to the loop:
\* "panic", "none" (return None) or "walk"
record_entry(disk_image_buffer, current_idx, record_size) ==
    IF ~InRange(disk_image_buffer, current_idx, current_idx + 4) THEN "panic"
    ELSE IF Bytes(disk_image_buffer, current_idx, 4) # MFT_MAGIC THEN "none"
    ELSE IF current_idx + record_size > SliceLen(disk_image_buffer) THEN "none"
    ELSE "walk"

\* let record = &disk_image_buffer[current_idx..current_idx + record_size]
record_of(disk_image_buffer, current_idx, record_size) ==
    Sub(disk_image_buffer, current_idx, current_idx + record_size)

\* let attr = &record[offset..offset + len]
attr_of(record, offset, len) == Sub(record, offset, offset + len)

\* whether the match arm of this attribute calls parse_data_runs and enters
\* its loop: a non-resident DATA attribute of 64 bytes or more whose
\* data_run_offset lies within it
enters_run_loop(attr, h) ==
    /\ h.attr_type = ATTR_DATA
    /\ h.non_resident
    /\ SliceLen(attr) >= 64
    /\ U16(attr, 32) < SliceLen(attr)

\* A faulty variant of advance: the offset is left where it was.
advance_none(f, h) == f

\* offset += len
advance(f, h) == [f EXCEPT !.offset = f.offset + h.length]

\* A faulty variant of file_name_found: the name replaces those collected.
file_name_found_replacing(f, fname) ==
    IF IsSome(fname)
    THEN Some([f EXCEPT !.all_filenames = <<fname.v>>])
    ELSE Some(f)

\* if let Some(fname) = parse_filename(attr) { all_filenames.push(fname) }
file_name_found(f, fname) ==
    IF IsSome(fname)
    THEN Some([f EXCEPT !.all_filenames = Append(@, fname.v)])
    ELSE Some(f)

arm_file_name(f, attr) == file_name_found(f, parse_filename(attr))

data_stream_found(f, stream) ==
    IF IsSome(stream)
    THEN Some([f EXCEPT !.data_streams = Append(@, stream.v)])
    ELSE Some(f)

\* the DATA arm when parse_data_runs' loop is not entered
arm_data(f, attr, h) ==
    data_stream_found(f,
        IF h.non_resident
        THEN IF SliceLen(attr) < 64 THEN None
             ELSE parse_data_attribute_non_resident(attr, h.attr_name, None)
        ELSE parse_data_attribute_resident(attr, h.attr_name))

standard_information_found(f, r) ==
    IF IsPanic(r) THEN Panic
    ELSE IF IsSome(r)
    THEN Some([f EXCEPT !.created         = Some(r.v.c),
                        !.modified        = Some(r.v.m),
                        !.mft_modified    = Some(r.v.mm),
                        !.accessed        = Some(r.v.a),
                        !.file_attributes = Some(r.v.attrs),
                        !.owner_id        = r.v.oid,
                        !.security_id     = r.v.sid,
                        !.usn             = r.v.u])
    ELSE Some(f)

\* A faulty variant of arm_standard_information: no "created.is_none()" guard.
arm_standard_information_unguarded(f, attr) ==
    standard_information_found(f, parse_standard_information(attr))

arm_standard_information(f, attr) ==
    IF IsNone(f.created)
    THEN standard_information_found(f, parse_standard_information(attr))
    ELSE Some(f)

object_id_found(f, r) ==
    IF IsPanic(r) THEN Panic ELSE Some([f EXCEPT !.object_id = r])

arm_object_id(f, attr) ==
    IF IsNone(f.object_id) THEN object_id_found(f, parse_object_id(attr)) ELSE Some(f)

reparse_point_found(f, r) ==
    IF IsPanic(r) THEN Panic
    ELSE IF IsSome(r)
    THEN Some([f EXCEPT !.reparse_tag    = Some(r.v.tag),
                        !.reparse_target = r.v.target])
    ELSE Some(f)

arm_reparse_point(f, attr) ==
    IF IsNone(f.reparse_tag)
    THEN reparse_point_found(f, parse_reparse_point(attr))
    ELSE Some(f)

arm_ea_information(f) == Some([f EXCEPT !.has_ea = TRUE])

\* the match on attr_type
dispatch(f, attr, h) ==
    CASE h.attr_type = ATTR_FILE_NAME -> arm_file_name(f, attr)
      [] h.attr_type = ATTR_DATA -> arm_data(f, attr, h)
      [] h.attr_type = ATTR_STANDARD_INFORMATION -> arm_standard_information(f, attr)
      [] h.attr_type = ATTR_OBJECT_ID -> arm_object_id(f, attr)
      [] h.attr_type = ATTR_REPARSE_POINT -> arm_reparse_point(f, attr)
      [] h.attr_type = ATTR_EA_INFORMATION -> arm_ea_information(f)
      [] OTHER -> Some(f)

\* offset += len, unless the arm panicked
step_on(r, h) == IF IsPanic(r) THEN Panic ELSE Some(advance(r.v, h))

\* One turn of the attribute loop for the header h found at f.offset:
\* Panic, or Some of the locals after "offset += len"
walk_attr(f, rec, h) == step_on(dispatch(f, attr_of(rec, f.offset, h.length), h), h)

\* iter().position(|f| f.namespace is one of namespaces): the 1-based index
\* of the first such element, or None
position(s, namespaces) ==
    IF \E i \in 1 .. Len(s) : s[i].namespace \in namespaces
    THEN Some(CHOOSE i \in 1 .. Len(s) :
                  /\ s[i].namespace \in namespaces
                  /\ \A j \in 1 .. (i - 1) : s[j].namespace \notin namespaces)
    ELSE None

\* A faulty variant of main_index: the first name, whatever its namespace.
main_index_first(all_filenames) == 1

\* main_idx, 1-based
main_index(all_filenames) ==
    LET p1 == position(all_filenames, {1, 3})
        p0 == position(all_filenames, {0})
    IN  IF IsSome(p1) THEN p1.v ELSE IF IsSome(p0) THEN p0.v ELSE 1

\* Vec::remove
RemoveAt(s, i) == SubSeq(s, 1, i - 1) \o SubSeq(s, i + 1, Len(s))

to_alternate(fn) == [name |-> fn.name, namespace |-> fn.namespace]

\* the NtfsEntry built from the locals, the chosen FILE_NAME and the others
assemble(f, current_idx, main, rest) ==
    [mft_offset          |-> current_idx,
     mft_record_number   |-> f.mft_record_number,
     sequence_number     |-> f.sequence_number,
     hardlink_count      |-> f.hardlink_count,
     is_in_use           |-> f.is_in_use,
     is_directory        |-> f.is_directory,
     filename            |-> main.name,
     parent_mft_record   |-> SubSeq(main.parent_reference, 1, 6) \o Zeros(2),
     parent_sequence     |-> main.parent_reference[7] + 256 * main.parent_reference[8],
     allocated_size      |-> main.allocated_size,
     real_size           |-> main.real_size,
     created             |-> f.created,
     modified            |-> f.modified,
     mft_modified        |-> f.mft_modified,
     accessed            |-> f.accessed,
     file_attributes     |-> f.file_attributes,
     owner_id            |-> f.owner_id,
     security_id         |-> f.security_id,
     usn                 |-> f.usn,
     object_id           |-> f.object_id,
     alternate_filenames |-> [k \in 1 .. Len(rest) |-> to_alternate(rest[k])],
     data_streams        |-> f.data_streams,
     reparse_tag         |-> f.reparse_tag,
     reparse_target      |-> f.reparse_target,
     has_extended_attributes |-> f.has_ea]

\* let main = all_filenames.remove(main_idx)
select_main(f, current_idx, main_idx) ==
    assemble(f, current_idx, f.all_filenames[main_idx],
             RemoveAt(f.all_filenames, main_idx))

\* the end of parse_ntfs_record, after the loop: None or Some(NtfsEntry)
finish_record(f, current_idx) ==
    IF f.all_filenames = << >> THEN None
    ELSE Some(select_main(f, current_idx, main_index(f.all_filenames)))

\* disk_image_buffer.len().saturating_sub(4)
scan_end(len) == IF len >= 4 THEN len - 4 ELSE 0

\* ------------------------------------------------------------------------
\* The state

VARIABLES
    image,            \* the input slice: [len, m]
    overflow_checks,  \* whether the build traps integer overflow ("on", the debug
                      \* profile) or wraps ("off", the release profile); "unset"
                      \* until the run first depends on it
    pc,               \* "scan", "call", "walk", "runs", "ret", "done", "panic"
    idx,              \* the candidate offset of scan_ntfs_image's range
    frame,            \* the locals of parse_ntfs_record while it runs
    run_frame,        \* the locals of parse_data_runs while its loop runs
    ret,              \* what parse_ntfs_record returned
    yielded,          \* the entries the iterator has yielded, in order
    visited           \* history: the attribute headers the walk has dispatched

vars == <<image, overflow_checks, pc, idx, frame, run_frame, ret, yielded, visited>>

\* the whole image as a slice
disk_image_buffer == [m |-> image.m, base |-> 0, len |-> image.len]

\* the record under parse and the header at the walk's offset
record == record_of(disk_image_buffer, idx, RECORD_SIZE)

header == parse_attr_header(record, frame.offset)

attr == attr_of(record, frame.offset, header.v.length)

visit == [offset |-> frame.offset, attr_type |-> header.v.attr_type,
          length |-> header.v.length]

\* ------------------------------------------------------------------------
\* scan_ntfs_image

\* the range yields the next candidate and filter_map calls the closure
ScanNext ==
    /\ pc = "scan"
    /\ idx < scan_end(image.len)
    /\ pc' = "call"
    /\ UNCHANGED <<image, overflow_checks, idx, frame, run_frame, ret, yielded, visited>>

\* the range is exhausted
ScanDone ==
    /\ pc = "scan"
    /\ idx >= scan_end(image.len)
    /\ pc' = "done"
    /\ UNCHANGED <<image, overflow_checks, idx, frame, run_frame, ret, yielded, visited>>

\* A faulty variant of next_candidate: the range does not step.
next_candidate_stuck(i) == i

\* step_by(8)
next_candidate(i) == i + SCAN_STEP

\* filter_map keeps a Some and drops a None; the range steps on
Yield ==
    /\ pc = "ret"
    /\ yielded' = IF IsSome(ret) THEN Append(yielded, ret.v) ELSE yielded
    /\ idx' = next_candidate(idx)
    /\ pc' = "scan"
    /\ ret' = None
    /\ UNCHANGED <<image, overflow_checks, frame, run_frame, visited>>

\* ------------------------------------------------------------------------
\* parse_ntfs_record

\* the signature and bounds checks, the record header, the locals
ParseEnter ==
    /\ pc = "call"
    /\ LET e == record_entry(disk_image_buffer, idx, RECORD_SIZE)
       IN  /\ pc' = IF e = "none" THEN "ret" ELSE e
           /\ frame' = IF e = "walk" THEN new_frame(record) ELSE None
    /\ ret' = None
    /\ visited' = << >>
    /\ UNCHANGED <<image, overflow_checks, idx, run_frame, yielded>>

\* the locals after a turn of the loop: as they were when it panicked
walked(f, r) == IF IsPanic(r) THEN f ELSE r.v

\* one turn of the attribute loop that does not enter parse_data_runs' loop
WalkAttr ==
    /\ pc = "walk"
    /\ IsSome(header)
    /\ ~enters_run_loop(attr, header.v)
    /\ frame' = walked(frame, walk_attr(frame, record, header.v))
    /\ pc' = IF IsPanic(walk_attr(frame, record, header.v)) THEN "panic" ELSE "walk"
    /\ visited' = Append(visited, visit)
    /\ UNCHANGED <<image, overflow_checks, idx, run_frame, ret, yielded>>

\* a non-resident DATA attribute: parse_data_runs up to its loop
WalkDataRuns ==
    /\ pc = "walk"
    /\ IsSome(header)
    /\ enters_run_loop(attr, header.v)
    /\ run_frame' = [offset      |-> U16(attr, 32),
                     current_lcn |-> Zeros(8),
                     runs        |-> << >>]
    /\ pc' = "runs"
    /\ visited' = Append(visited, visit)
    /\ UNCHANGED <<image, overflow_checks, idx, frame, ret, yielded>>

\* what the loop of parse_data_runs does next: "exit" when its condition
\* fails, else the outcome of its body
run_turn ==
    IF run_frame.offset < SliceLen(attr)
    THEN data_run_step(attr, run_frame.offset, run_frame.current_lcn)
    ELSE [kind |-> "exit"]

\* the builds the run can still be a run of
builds == IF overflow_checks = "unset" THEN {"on", "off"} ELSE {overflow_checks}

\* the locals after a run is pushed
pushed(rf, turn) ==
    [offset      |-> turn.offset,
     current_lcn |-> turn.current_lcn,
     runs        |-> Append(rf.runs, turn.run)]

\* one turn of the loop that emits a run; "current_lcn += cluster_offset"
\* panics on overflow in a build that checks it and wraps in one that does not
RunStep ==
    /\ pc = "runs"
    /\ run_turn.kind \in {"push", "overflow"}
    /\ \E build \in (IF run_turn.kind = "overflow" THEN builds ELSE {overflow_checks}) :
          /\ overflow_checks' = build
          /\ pc' = IF run_turn.kind = "overflow" /\ build = "on" THEN "panic" ELSE "runs"
          /\ run_frame' = IF run_turn.kind = "overflow" /\ build = "on"
                          THEN run_frame
                          ELSE pushed(run_frame, run_turn)
    /\ UNCHANGED <<image, idx, frame, ret, yielded, visited>>

\* the loop ends; parse_data_attribute builds the stream, the walk steps on
RunsDone ==
    /\ pc = "runs"
    /\ run_turn.kind \in {"exit", "break"}
    /\ LET data_runs == IF run_frame.runs = << >> THEN None ELSE Some(run_frame.runs)
           stream    == parse_data_attribute_non_resident(attr, header.v.attr_name,
                                                          data_runs)
       IN  frame' = advance([frame EXCEPT !.data_streams = Append(@, stream.v)],
                            header.v)
    /\ run_frame' = None
    /\ pc' = "walk"
    /\ UNCHANGED <<image, overflow_checks, idx, ret, yielded, visited>>

\* whether buf holds at offset a header, not the end marker, whose length is
\* 0 or runs past the end of buf
length_out_of_range(buf, offset) ==
    /\ offset + 16 <= SliceLen(buf)
    /\ Bytes(buf, offset, 4) # ATTR_END
    /\ IF IsZero(Bytes(buf, offset + 4, 4)) THEN TRUE
       ELSE AddExceeds(offset, Bytes(buf, offset + 4, 4), SliceLen(buf))

\* A faulty variant of WalkEnd: a header whose length is out of range makes
\* parse_ntfs_record return None.
WalkEnd_abandoning ==
    /\ pc = "walk"
    /\ IsNone(header)
    /\ ret' = IF length_out_of_range(record, frame.offset) THEN None
              ELSE finish_record(frame, idx)
    /\ frame' = None
    /\ pc' = "ret"
    /\ UNCHANGED <<image, overflow_checks, idx, run_frame, yielded, visited>>

\* parse_attr_header returned None: the loop ends and the entry is assembled
WalkEnd ==
    /\ pc = "walk"
    /\ IsNone(header)
    /\ ret' = finish_record(frame, idx)
    /\ frame' = None
    /\ pc' = "ret"
    /\ UNCHANGED <<image, overflow_checks, idx, run_frame, yielded, visited>>

RecordNext ==
    \/ ParseEnter
    \/ WalkAttr
    \/ WalkDataRuns
    \/ RunStep
    \/ RunsDone
    \/ WalkEnd

Next ==
    \/ ScanNext
    \/ ScanDone
    \/ Yield
    \/ RecordNext

\* ------------------------------------------------------------------------
\* Inputs: images assembled from attributes laid out as NTFS lays them out

\* the bytes bs at offsets off, off+1, ...
At(off, bs) == [a \in off .. (off + Len(bs) - 1) |-> bs[a - off + 1]]

Shift(rel, o) == [a \in {b + o : b \in DOMAIN rel} |-> rel[a - o]]

NonZero(m) == [a \in {b \in DOMAIN m : m[b] # 0} |-> m[a]]

RoundUp8(n) == ((n + 7) \div 8) * 8

RECURSIVE Utf16Bytes(_)
Utf16Bytes(us) ==
    IF us = << >> THEN << >>
    ELSE <<us[1] % 256, us[1] \div 256>> \o Utf16Bytes(Tail(us))

\* an attribute: its bytes relative to its start, and the length its header states
MkAttr(type, length, non_resident, name_length, name_offset, body) ==
    [rel |-> At(0, type \o length \o <<non_resident, name_length>>
                   \o NatBytes(name_offset, 2)) @@ body,
     adv |-> IF Fits(length) THEN ToNat(length) ELSE 0]

\* the body of a resident attribute: content_length, content_offset, content
ResidentBody(content_offset, content) ==
    At(16, NatBytes(Len(content), 4) \o NatBytes(content_offset, 2))
    @@ At(content_offset, content)

\* a resident attribute of the given total length
Resident(type, length, content_offset, content) ==
    MkAttr(type, NatBytes(length, 4), 0, 0, 0, ResidentBody(content_offset, content))

\* FILE_NAME content: parent reference, sizes, name length, namespace, name
FileNameContent(parent, allocated, real, name_length, namespace, units) ==
    parent \o Zeros(32) \o allocated \o real \o Zeros(8)
    \o <<name_length, namespace>> \o Utf16Bytes(units)

\* a well-formed FILE_NAME attribute; parent and sizes differ with tag, so
\* that two attributes of a record are told apart
FileName(namespace, units, tag) ==
    Resident(ATTR_FILE_NAME, RoundUp8(24 + 66 + 2 * Len(units)), 24,
             FileNameContent(<<tag, 1, 0, 0, 0, 0, tag, 2>>,
                             <<0, tag, 0, 0, 0, 0, 0, 0>>,
                             <<tag, 0, 0, 0, 0, 0, 0, 0>>,
                             Len(units), namespace, units))

\* FILE_NAME attributes that do not decode: shorter than 66 bytes; a name
\* running past the attribute; an unpaired surrogate
FileNameShort == Resident(ATTR_FILE_NAME, 48, 24, <<1, 2, 3>>)

FileNameOverrun ==
    Resident(ATTR_FILE_NAME, 96, 24,
             FileNameContent(Zeros(8), Zeros(8), Zeros(8), 40, 1, <<97>>))

FileNameBadUtf16 == FileName(1, <<55357, 97>>, 9)

\* FILETIMEs: 2020-ish, 2016-ish, the largest u64
FtA == <<0, 128, 62, 213, 222, 177, 214, 1>>

FtB == <<0, 64, 18, 42, 130, 107, 209, 1>>

FtMax == <<255, 255, 255, 255, 255, 255, 255, 255>>

\* STANDARD_INFORMATION content: four FILETIMEs, flags, and extension bytes
StdInfoContent(c, m, mm, a, flags, extra) ==
    c \o m \o mm \o a \o flags \o Zeros(12) \o extra

StdInfo(c, m, mm, a, flags, extra) ==
    Resident(ATTR_STANDARD_INFORMATION, 24 + 48 + Len(extra), 24,
             StdInfoContent(c, m, mm, a, flags, extra))

\* owner_id, security_id, quota, usn
StdInfoExt(tag) == <<tag, 0, 0, 0>> \o <<tag, 1, 0, 0>> \o Zeros(8)
                   \o <<tag, 0, 0, 0, 0, 0, 0, 1>>

\* an attribute of 16 bytes: a header and nothing else
Bare(type) == MkAttr(type, NatBytes(16, 4), 0, 0, 0, << >>)

\* a resident attribute whose content_offset points past its end
ContentPastEnd(type) == Resident(type, 24, 24, << >>)

ObjectId(tag) ==
    Resident(ATTR_OBJECT_ID, 40, 24,
             <<tag, 2, 3, 4, 5, 6, 7, 8, 9, 10, 11, 12, 13, 14, 15, 255>>)

\* a REPARSE_POINT: tag, data length, reserved, then the symlink buffer
\* (substitute name offset and length, print name offset and length, flags)
Reparse(tag, sub_off, sub_len, units) ==
    Resident(ATTR_REPARSE_POINT, RoundUp8(24 + 20 + 2 * Len(units)), 24,
             tag \o Zeros(4) \o NatBytes(sub_off, 2) \o NatBytes(sub_len, 2)
             \o Zeros(8) \o Utf16Bytes(units))

\* a resident DATA attribute, unnamed
DataResident(content) == Resident(ATTR_DATA, RoundUp8(24 + Len(content)), 24, content)

\* a resident DATA attribute with a name of name_units at offset 24
DataNamed(name_units, content) ==
    MkAttr(ATTR_DATA,
           NatBytes(RoundUp8(24 + 2 * Len(name_units) + Len(content)), 4),
           0, Len(name_units), 24,
           At(24, Utf16Bytes(name_units))
           @@ ResidentBody(24 + 2 * Len(name_units), content))

\* a non-resident DATA attribute: run list at offset 64, real and allocated size
DataNonResident(run_bytes, length) ==
    MkAttr(ATTR_DATA, NatBytes(length, 4), 1, 0, 0,
           At(32, NatBytes(64, 2))
           @@ At(48, <<0, 16, 0, 0, 0, 0, 0, 0>> \o <<0, 32, 0, 0, 0, 0, 0, 0>>)
           @@ At(64, run_bytes))

\* the end marker, and headers whose length is 0 or out of range
EndMarker == MkAttr(ATTR_END, Zeros(4), 0, 0, 0, << >>)

ZeroLength(type) == MkAttr(type, Zeros(4), 0, 0, 0, << >>)

HugeLength(type) == MkAttr(type, <<255, 255, 255, 255>>, 0, 0, 0, << >>)

PastRecord(type) == MkAttr(type, NatBytes(2048, 4), 0, 0, 0, << >>)

Unknown == Resident(<<144, 0, 0, 0>>, 32, 24, <<1, 2, 3, 4>>)

\* the attributes laid end to end from offset at
\* the room an attribute is given: its stated length, or 16 bytes when that
\* is 0 or out of range
Span(a) == IF a.adv = 0 \/ a.adv > RECORD_SIZE THEN 16 ELSE a.adv

RECURSIVE Layout(_, _)
Layout(attrs, at) ==
    IF attrs = << >> THEN << >>
    ELSE Shift(attrs[1].rel, at) @@ Layout(Tail(attrs), at + Span(attrs[1]))

RECURSIVE Extent(_)
Extent(attrs) ==
    IF attrs = << >> THEN 0 ELSE Span(attrs[1]) + Extent(Tail(attrs))

\* an MFT record: signature, header fields, attributes from offset 56, and
\* the end marker after them when they leave room for it
MftRecord(attrs, tag) ==
    LET first_attr_offset == 56
    IN  At(0, MFT_MAGIC)
        @@ At(16, <<tag, 1>> \o <<2, 0>> \o NatBytes(first_attr_offset, 2)
                  \o <<(tag % 4), 0>>)
        @@ At(44, <<tag, 0, 0, 1>>)
        @@ Layout(attrs, first_attr_offset)
        @@ At(first_attr_offset + Extent(attrs), ATTR_END)

\* all sequences over S of length 0..n
SeqsUpTo(S, n) == UNION {[1 .. k -> S] : k \in 0 .. n}

\* an image: lead zero bytes, then the records back to back, then tail bytes
RECURSIVE Records(_, _)
Records(recs, at) ==
    IF recs = << >> THEN << >>
    ELSE Shift(recs[1], at) @@ Records(Tail(recs), at + RECORD_SIZE)

Image(lead, recs, tail) ==
    [len |-> lead + RECORD_SIZE * Len(recs) + tail,
     m   |-> NonZero(Records(recs, lead))]

\* ------------------------------------------------------------------------
\* Specifications

\* the state in which parse_ntfs_record is called on img at offset i
CallState(img, i) ==
    /\ image = img
    /\ overflow_checks = "unset"
    /\ pc = "call"
    /\ idx = i
    /\ frame = None
    /\ run_frame = None
    /\ ret = None
    /\ yielded = << >>
    /\ visited = << >>

\* the state in which scan_ntfs_image starts on img
ScanState(img) ==
    /\ image = img
    /\ overflow_checks = "unset"
    /\ pc = "scan"
    /\ idx = 0
    /\ frame = None
    /\ run_frame = None
    /\ ret = None
    /\ yielded = << >>
    /\ visited = << >>

\* one run of 3 clusters at LCN 5, then the terminator
SimpleRuns == <<17, 3, 5, 0>>

\* three runs that fill the attribute to its last byte, with no terminator:
\* 3 clusters at +5, 2 clusters at -5, 4 sparse clusters
RunsToTheEnd == <<17, 3, 5, 17, 2, 251, 1, 4>>

\* an attribute of an unknown type that ends 8 bytes before the record does,
\* so that no header fits after it
Filler(after) ==
    Resident(<<144, 0, 0, 0>>, RECORD_SIZE - 8 - 56 - Extent(after), 24, <<1>>)

\* scan_ntfs_image on images of up to MaxRecords records, with or without a
\* truncated record (a signature and 12 more bytes) after them
MaxRecords == 2

RecordMenu ==
    {MftRecord(<<FileName(1, <<97>>, 1)>>, 1),
     MftRecord(<<FileName(2, <<66>>, 2), DataNonResident(RunsToTheEnd, 72)>>, 2),
     MftRecord(<<FileName(1, <<97>>, 1), Bare(ATTR_STANDARD_INFORMATION)>>, 3),
     MftRecord(<<FileName(0, <<99>>, 4), Filler(<<FileName(0, <<99>>, 4)>>)>>, 4),
     MftRecord(<<Unknown>>, 5)}

Truncated == At(0, MFT_MAGIC)

WithTail(recs, tail) ==
    [len |-> RECORD_SIZE * Len(recs) + 16 * Len(tail),
     m   |-> NonZero(Records(recs, 0) @@ Records(tail, RECORD_SIZE * Len(recs)))]

Init ==
    \E recs \in SeqsUpTo(RecordMenu, MaxRecords), tail \in SeqsUpTo({Truncated}, 1) :
        ScanState(WithTail(recs, tail))

Spec == Init /\ [][Next]_vars

\* the call of parse_ntfs_record on a record holding attrs, then a
\* non-resident DATA attribute, then the end marker
CallOn(attrs) ==
    CallState(Image(8, <<MftRecord(attrs \o <<DataNonResident(SimpleRuns, 72)>>, 3)>>,
                    0), 8)

\* parse_ntfs_record on a record of up to MaxNames attributes of NameMenu
MaxNames == 3

NameMenu ==
    {FileName(1, <<97>>, 1), FileName(2, <<66>>, 2), FileName(0, <<99>>, 3),
     FileName(3, <<100, 55357, 56832>>, 4), FileName(2, << >>, 5),
     FileNameShort, FileNameOverrun, FileNameBadUtf16, Unknown}

InitNames == \E attrs \in SeqsUpTo(NameMenu, MaxNames) : CallOn(attrs)

NameSpec == InitNames /\ [][RecordNext]_vars

\* parse_ntfs_record on a record of a FILE_NAME and up to MaxAttrs attributes
\* of AttrMenu: STANDARD_INFORMATION, OBJECT_ID and REPARSE_POINT attributes
\* that decode and that do not
MaxAttrs == 2

AttrMenu ==
    {StdInfo(FtA, FtA, FtB, FtA, <<32, 0, 0, 0>>, << >>),
     StdInfo(FtB, FtB, FtB, FtB, <<1, 0, 0, 0>>, StdInfoExt(7)),
     StdInfo(FtA, Zeros(8), FtA, FtA, <<2, 0, 0, 0>>, StdInfoExt(9)),
     StdInfo(FtMax, FtA, FtA, FtA, <<4, 0, 0, 0>>, << >>),
     ContentPastEnd(ATTR_STANDARD_INFORMATION),
     ObjectId(1), ObjectId(2), ContentPastEnd(ATTR_OBJECT_ID),
     Reparse(REPARSE_TAG_SYMLINK, 0, 2, <<97>>),
     Reparse(<<1, 0, 0, 128>>, 0, 0, << >>),
     ContentPastEnd(ATTR_REPARSE_POINT)}

InitAttrs ==
    \E attrs \in SeqsUpTo(AttrMenu, MaxAttrs) : CallOn(<<FileName(1, <<97>>, 1)>> \o attrs)

AttrSpec == InitAttrs /\ [][RecordNext]_vars

\* parse_ntfs_record on a record of up to MaxHeaders attributes of HeaderMenu:
\* attributes that decode, and headers whose length is 0 or out of range
MaxHeaders == 3

HeaderMenu ==
    {FileName(1, <<97>>, 1), FileName(2, <<66>>, 2), FileNameShort, Unknown,
     DataResident(<<104, 105>>), DataNamed(<<115>>, <<104, 105>>), EndMarker,
     ZeroLength(ATTR_DATA), HugeLength(ATTR_FILE_NAME), PastRecord(<<144, 0, 0, 0>>)}

InitHeaders == \E attrs \in SeqsUpTo(HeaderMenu, MaxHeaders) : CallOn(attrs)

HeaderSpec == InitHeaders /\ [][RecordNext]_vars

\* parse_ntfs_record on a record of a FILE_NAME and a non-resident DATA
\* attribute whose run list is up to MaxRuns runs of RunMenu and a terminator
MaxRuns == 3

\* 3 clusters at +5; 2 clusters at -5; 4 sparse clusters; 513 clusters at
\* -128; 7 clusters at -32768; 1 cluster at 2^63 - 1; 1 cluster at -2^63
RunMenu ==
    {<<17, 3, 5>>, <<17, 2, 251>>, <<1, 4>>, <<18, 1, 2, 128>>, <<33, 7, 0, 128>>,
     <<129, 1, 255, 255, 255, 255, 255, 255, 255, 127>>,
     <<129, 1, 0, 0, 0, 0, 0, 0, 0, 128>>}

RECURSIVE Flatten(_)
Flatten(ss) == IF ss = << >> THEN << >> ELSE ss[1] \o Flatten(Tail(ss))

RunList(runs) ==
    DataNonResident(Flatten(runs) \o <<0>>, RoundUp8(64 + Len(Flatten(runs)) + 1))

InitRuns ==
    \E runs \in SeqsUpTo(RunMenu, MaxRuns) :
        CallState(Image(8, <<MftRecord(<<FileName(1, <<97>>, 1), RunList(runs)>>, 3)>>,
                        0), 8)

RunsSpec == InitRuns /\ [][RecordNext]_vars

\* parse_ntfs_record on a record of up to MaxSoft attributes of SoftMenu:
\* attributes that decode, attributes with a valid header whose body does
\* not decode, and an attribute of an unknown type
MaxSoft == 3

SoftMenu ==
    {FileName(1, <<97>>, 1), FileName(2, <<66>>, 2),
     FileNameShort, FileNameOverrun, FileNameBadUtf16, Unknown,
     DataResident(<<104, 105>>), ContentPastEnd(ATTR_STANDARD_INFORMATION),
     Bare(ATTR_OBJECT_ID)}

InitSoft == \E attrs \in SeqsUpTo(SoftMenu, MaxSoft) : CallOn(attrs)

SoftSpec == InitSoft /\ [][RecordNext]_vars

\* ------------------------------------------------------------------------
\* Properties

\* the attribute the walk dispatched at the history entry v
attr_visited(v) == attr_of(record, v.offset, v.length)

\* the history entries of the attributes of one type, in on-disk order
visits_of(type) == SelectSeq(visited, LAMBDA v : v.attr_type = type)

\* the FILE_NAME attributes the walk dispatched that parse_filename decodes,
\* decoded, in on-disk order
decoded_names ==
    LET all == [k \in 1 .. Len(visits_of(ATTR_FILE_NAME)) |->
                   parse_filename(attr_visited(visits_of(ATTR_FILE_NAME)[k]))]
        ok  == SelectSeq(all, IsSome)
    IN  [k \in 1 .. Len(ok) |-> ok[k].v]

\* the offset at which the walk now stands: after the last attribute it
\* dispatched, or at first_attr_offset
walk_offset ==
    IF visited = << >> THEN U16(record, 20)
    ELSE visited[Len(visited)].offset + visited[Len(visited)].length

\* C1: scan_ntfs_image never aborts: every index and sub-slice taken by
\* parse_ntfs_record and the attribute decoders lies within its slice, so no
\* run reaches the panic state.
C1_NeverPanics == pc # "panic"

\* C2: mft_offset is strictly increasing over the sequence yielded by
\* scan_ntfs_image: each entry's offset is greater than that of the entry
\* yielded before it.
C2_OffsetsStrictlyIncrease ==
    \A i \in 1 .. (Len(yielded) - 1) : yielded[i].mft_offset < yielded[i + 1].mft_offset

\* two entries have been yielded and the scan has run to its end
C2_TwoEntriesYielded == pc = "done" /\ Len(yielded) >= 2

\* C3: in every entry parse_ntfs_record returns, the canonical filename is
\* a non-empty string, also when a FILE_NAME attribute states name_length 0.
C3_FilenameNonEmpty == IsSome(ret) => ret.v.filename # << >>

\* C4, as claimed: alternate_filenames.len() + 1 is the number of FILE_NAME
\* attributes in the attribute stream from first_attr_offset to where the
\* walk ended.
C4_CountsEveryFileName ==
    IsSome(ret) =>
        Len(ret.v.alternate_filenames) + 1 = Len(visits_of(ATTR_FILE_NAME))

\* C4, amended: alternate_filenames.len() + 1 is the number of FILE_NAME
\* attributes in the walked stream that parse_filename decodes; it is at
\* most the number of FILE_NAME attributes, and a record none of whose
\* FILE_NAME attributes decodes yields no entry.
C4_CountsDecodedFileNames ==
    pc = "ret" =>
        IF decoded_names = << >> THEN IsNone(ret)
        ELSE /\ IsSome(ret)
             /\ Len(ret.v.alternate_filenames) + 1 = Len(decoded_names)
             /\ Len(decoded_names) <= Len(visits_of(ATTR_FILE_NAME))

\* an entry with an alternate name, from a record one of whose FILE_NAME
\* attributes did not decode
C4_EntryWithUndecodedName ==
    /\ IsSome(ret)
    /\ Len(ret.v.alternate_filenames) = 1
    /\ Len(visits_of(ATTR_FILE_NAME)) = 3

\* whether the i-th of the names s is the one the selection rule names: the
\* first with namespace 1 or 3; failing that the first with namespace 0;
\* failing that the first
is_canonical(s, i) ==
    IF \E j \in 1 .. Len(s) : s[j].namespace \in {1, 3}
    THEN s[i].namespace \in {1, 3} /\ \A j \in 1 .. (i - 1) : s[j].namespace \notin {1, 3}
    ELSE IF \E j \in 1 .. Len(s) : s[j].namespace = 0
    THEN s[i].namespace = 0 /\ \A j \in 1 .. (i - 1) : s[j].namespace # 0
    ELSE i = 1

\* whether the entry e takes its name, parent and sizes from the i-th of the
\* names s, and its alternate names from the others, in their order
built_from(e, s, i) ==
    /\ e.filename = s[i].name
    /\ e.parent_mft_record = SubSeq(s[i].parent_reference, 1, 6) \o <<0, 0>>
    /\ e.parent_sequence = ToNat(SubSeq(s[i].parent_reference, 7, 8))
    /\ e.allocated_size = s[i].allocated_size
    /\ e.real_size = s[i].real_size
    /\ Len(e.alternate_filenames) = Len(s) - 1
    /\ \A k \in 1 .. (Len(s) - 1) :
          LET other == s[IF k < i THEN k ELSE k + 1]
          IN  e.alternate_filenames[k] = [name |-> other.name,
                                          namespace |-> other.namespace]

\* C5: when the walk ends with a non-empty list of collected FILE_NAME
\* attributes, the entry returned is built from the first of them with
\* namespace 1 or 3, else the first with namespace 0, else the first:
\* filename, parent_mft_record, parent_sequence, allocated_size and real_size
\* are that attribute's, and alternate_filenames is the list without it, in
\* its order.
C5_CanonicalSelection ==
    [][pc = "walk" /\ pc' = "ret" /\ frame.all_filenames # << >> =>
          /\ IsSome(ret')
          /\ \E i \in 1 .. Len(frame.all_filenames) :
                /\ is_canonical(frame.all_filenames, i)
                /\ built_from(ret'.v, frame.all_filenames, i)]_vars

\* an entry whose name is the third of three collected names: a DOS name
\* and a POSIX name come before the Win32 name chosen
C5_ThirdNameChosen ==
    /\ IsSome(ret)
    /\ Len(decoded_names) = 3
    /\ decoded_names[1].namespace = 2
    /\ decoded_names[2].namespace = 0
    /\ decoded_names[3].namespace = 1
    /\ ret.v.filename = decoded_names[3].name
    /\ Len(ret.v.alternate_filenames) = 2

\* the non-resident DATA attribute whose run list was decoded, and the offset
\* of its run list
runs_attr == attr_visited(visits_of(ATTR_DATA)[1])

runs_start == U16(runs_attr, 32)

\* the runs emitted so far, or returned in the entry's first data stream
emitted_runs ==
    IF pc = "runs" THEN run_frame.runs
    ELSE IF pc = "ret" /\ IsSome(ret) /\ ret.v.data_streams # << >>
            /\ IsSome(ret.v.data_streams[1].data_runs)
    THEN ret.v.data_streams[1].data_runs.v
    ELSE << >>

\* the offset of the header byte of the k-th run of the list of a that starts
\* at first: each run is a header byte, length_bytes bytes, offset_bytes bytes
RECURSIVE run_header_at(_, _, _)
run_header_at(a, first, k) ==
    IF k = 1 THEN first
    ELSE LET p == run_header_at(a, first, k - 1)
         IN  p + 1 + (Byte(a, p) % 16) + (Byte(a, p) \div 16)

\* the n low bytes of bs read as a two's-complement value, in 10 bytes: wide
\* enough for the sum of any run list checked here
widened(bs, n) ==
    [k \in 1 .. 10 |-> IF k <= n THEN bs[k]
                       ELSE IF n > 0 /\ bs[n] >= 128 THEN 255 ELSE 0]

\* the signed delta of the run whose header is at p: 0 for a sparse run
delta_of(a, p) ==
    widened(Bytes(a, p + 1 + (Byte(a, p) % 16), Byte(a, p) \div 16), Byte(a, p) \div 16)

\* the cluster count of the run whose header is at p, as a u64
count_of(a, p) == [k \in 1 .. 8 |-> IF k <= Byte(a, p) % 16 THEN Byte(a, p + k) ELSE 0]

\* the sum of the deltas of runs 1..k, exact
RECURSIVE sum_of_deltas(_, _, _)
sum_of_deltas(a, first, k) ==
    IF k = 0 THEN Zeros(10)
    ELSE AddCarry(sum_of_deltas(a, first, k - 1),
                  delta_of(a, run_header_at(a, first, k)), 0)

\* C6, as claimed: the k-th emitted run has cluster_offset equal to the sum
\* of the signed deltas of runs 1..k (a sparse run counting 0), and
\* cluster_count equal to the unsigned value of its length_bytes bytes.
C6_OffsetIsSumOfDeltas ==
    \A k \in 1 .. Len(emitted_runs) :
        /\ widened(emitted_runs[k].cluster_offset, 8) = sum_of_deltas(runs_attr, runs_start, k)
        /\ emitted_runs[k].cluster_count = count_of(runs_attr, run_header_at(runs_attr, runs_start, k))

\* C6, amended: the k-th emitted run has cluster_offset equal to the sum of
\* the signed deltas of runs 1..k reduced modulo 2^64 into the signed 64-bit
\* range; a sparse run emits the cluster_offset of the run before it (0 when
\* it is the first); cluster_count is the unsigned value of the length_bytes
\* bytes.
C6_OffsetIsSumOfDeltasMod2p64 ==
    \A k \in 1 .. Len(emitted_runs) :
        /\ emitted_runs[k].cluster_offset
             = SubSeq(sum_of_deltas(runs_attr, runs_start, k), 1, 8)
        /\ Byte(runs_attr, run_header_at(runs_attr, runs_start, k)) \div 16 = 0 =>
             emitted_runs[k].cluster_offset
               = IF k = 1 THEN Zeros(8) ELSE emitted_runs[k - 1].cluster_offset
        /\ emitted_runs[k].cluster_count = count_of(runs_attr, run_header_at(runs_attr, runs_start, k))

\* an entry with three runs: the sum of the first two deltas left the signed
\* range and was wrapped, the third run is sparse
C6_WrappedThenSparse ==
    /\ pc = "ret"
    /\ Len(emitted_runs) = 3
    /\ overflow_checks = "off"
    /\ Byte(runs_attr, run_header_at(runs_attr, runs_start, 3)) \div 16 = 0
    /\ emitted_runs[3].cluster_offset = emitted_runs[2].cluster_offset

\* C7, as claimed: when the walk reaches a header whose length is 0 or
\* whose offset + length exceeds the record size, parse_ntfs_record returns
\* no entry, whatever attributes came before.
C7_BadLengthAbandonsRecord ==
    pc = "ret" /\ length_out_of_range(record, walk_offset) => IsNone(ret)

\* C7, amended: a header whose length is 0 or whose offset + length exceeds
\* the record size ends the walk as the end marker does: no entry is
\* returned when no FILE_NAME attribute before it decoded, and otherwise the
\* entry built from the attributes before it is returned.
C7_BadLengthEndsWalk ==
    pc = "ret" /\ length_out_of_range(record, walk_offset) =>
        IF decoded_names = << >> THEN IsNone(ret)
        ELSE /\ IsSome(ret)
             /\ \E i \in 1 .. Len(decoded_names) :
                   /\ is_canonical(decoded_names, i)
                   /\ built_from(ret.v, decoded_names, i)

\* an entry with an alternate name, returned although the walk ended at a
\* header whose length is out of range
C7_EntryDespiteBadLength ==
    /\ IsSome(ret)
    /\ length_out_of_range(record, walk_offset)
    /\ Len(ret.v.alternate_filenames) = 1

\* What is left to do, as five numbers compared in lexicographic order: the
\* candidates the range has yet to yield; the stage of the closure's call;
\* the bytes of the record after the walk's offset; whether parse_data_runs
\* has yet to be entered for the attribute at hand; the bytes of the
\* attribute after the run loop's offset.
candidates_left ==
    IF idx >= scan_end(image.len) THEN 0
    ELSE (scan_end(image.len) - idx + SCAN_STEP - 1) \div SCAN_STEP

stage ==
    CASE pc = "scan" -> 4
      [] pc = "call" -> 3
      [] pc = "walk" -> 2
      [] pc = "runs" -> 2
      [] pc = "ret" -> 1
      [] OTHER -> 0

walk_left ==
    IF (pc = "walk" \/ pc = "runs") /\ frame.offset <= RECORD_SIZE
    THEN RECORD_SIZE - frame.offset
    ELSE 0

runs_left ==
    IF pc = "runs" /\ run_frame.offset <= SliceLen(attr)
    THEN SliceLen(attr) - run_frame.offset
    ELSE 0

left_to_do ==
    <<candidates_left, stage, walk_left, IF pc = "walk" THEN 1 ELSE 0, runs_left>>

\* a comes before b in the lexicographic order on tuples of naturals
lex_less(a, b) ==
    \E i \in 1 .. Len(a) : a[i] < b[i] /\ \A j \in 1 .. (i - 1) : a[j] = b[j]

\* C8: the scan and each record parse terminate.  Every step of the program
\* takes what is left to do down in a well-founded order, so no run has
\* infinitely many steps: the scanner visits finitely many candidates; in
\* the attribute walk the offset grows with every attribute, and the walk
\* ends once offset + 16 exceeds the record size; in parse_data_runs the
\* offset grows with every emitted run and stays within the attribute.
C8_Terminates ==
    [][/\ lex_less(left_to_do', left_to_do)
       /\ (pc = "walk" \/ pc = "runs") /\ pc' = "walk" => frame'.offset > frame.offset
       /\ pc = "walk" /\ frame.offset + 16 > RECORD_SIZE => pc' = "ret"
       /\ pc = "runs" /\ pc' = "runs" =>
             /\ run_frame'.offset > run_frame.offset
             /\ run_frame'.offset <= SliceLen(attr)]_vars

\* a scan that has come to its end after a walk that stopped for want of
\* room for a header, and after decoding a run list up to the attribute's end
C8_ScanEnded ==
    /\ pc = "done"
    /\ \E i \in 1 .. Len(yielded) : yielded[i].sequence_number = 256 + 4
    /\ \E i \in 1 .. Len(yielded) :
          /\ yielded[i].data_streams # << >>
          /\ IsSome(yielded[i].data_streams[1].data_runs)
          /\ Len(yielded[i].data_streams[1].data_runs.v) = 3


\* what their decoder returns for each of the STANDARD_INFORMATION, OBJECT_ID
\* and REPARSE_POINT attributes the walk dispatched, in on-disk order
standard_information_results ==
    [k \in 1 .. Len(visits_of(ATTR_STANDARD_INFORMATION)) |->
        parse_standard_information(attr_visited(visits_of(ATTR_STANDARD_INFORMATION)[k]))]

object_id_results ==
    [k \in 1 .. Len(visits_of(ATTR_OBJECT_ID)) |->
        parse_object_id(attr_visited(visits_of(ATTR_OBJECT_ID)[k]))]

reparse_point_results ==
    [k \in 1 .. Len(visits_of(ATTR_REPARSE_POINT)) |->
        parse_reparse_point(attr_visited(visits_of(ATTR_REPARSE_POINT)[k]))]

\* the first of the results: None when there is none
first_occurrence(results) == IF results = << >> THEN None ELSE results[1]

\* the first of the results that is a value: None when there is none
first_decoded(results) ==
    IF SelectSeq(results, IsSome) = << >> THEN None ELSE SelectSeq(results, IsSome)[1]

\* the fields an entry takes from STANDARD_INFORMATION, from OBJECT_ID and
\* from REPARSE_POINT
standard_information_fields(e) ==
    <<e.created, e.modified, e.mft_modified, e.accessed, e.file_attributes,
      e.owner_id, e.security_id, e.usn>>

reparse_fields(e) == <<e.reparse_tag, e.reparse_target>>

\* the same fields, as a result r of the attribute's decoder determines them
standard_information_from(r) ==
    IF IsSome(r)
    THEN <<Some(r.v.c), Some(r.v.m), Some(r.v.mm), Some(r.v.a), Some(r.v.attrs),
           r.v.oid, r.v.sid, r.v.u>>
    ELSE <<None, None, None, None, None, None, None, None>>

reparse_from(r) == IF IsSome(r) THEN <<Some(r.v.tag), r.v.target>> ELSE <<None, None>>

\* C9, as claimed: the entry's STANDARD_INFORMATION, OBJECT_ID and
\* REPARSE_POINT fields are determined by the first attribute of the type in
\* on-disk order alone, also when that attribute fails to decode: a later
\* attribute of the type never contributes.
C9_FirstOccurrenceAlone ==
    IsSome(ret) =>
        /\ standard_information_fields(ret.v)
             = standard_information_from(first_occurrence(standard_information_results))
        /\ ret.v.object_id = first_occurrence(object_id_results)
        /\ reparse_fields(ret.v) = reparse_from(first_occurrence(reparse_point_results))

\* C9, amended: the entry's STANDARD_INFORMATION, OBJECT_ID and REPARSE_POINT
\* fields are determined by the first attribute of the type, in on-disk
\* order, that its decoder decodes: attributes of the type before it that
\* fail to decode and all attributes of the type after it contribute
\* nothing, and the fields are absent when none decodes.
C9_FirstDecodedOccurrence ==
    IsSome(ret) =>
        /\ standard_information_fields(ret.v)
             = standard_information_from(first_decoded(standard_information_results))
        /\ ret.v.object_id = first_decoded(object_id_results)
        /\ reparse_fields(ret.v) = reparse_from(first_decoded(reparse_point_results))

\* an entry from a record with two STANDARD_INFORMATION attributes that both
\* decode, to different values
C9_TwoDecodedOccurrences ==
    /\ IsSome(ret)
    /\ Len(visits_of(ATTR_STANDARD_INFORMATION)) = 2
    /\ IsSome(standard_information_results[1])
    /\ IsSome(standard_information_results[2])
    /\ standard_information_results[1] # standard_information_results[2]

\* whether the five fields of STANDARD_INFORMATION are all present in e, or
\* all eight fields absent
all_or_nothing(e) ==
    \/ /\ IsSome(e.created) /\ IsSome(e.modified) /\ IsSome(e.mft_modified)
       /\ IsSome(e.accessed) /\ IsSome(e.file_attributes)
    \/ standard_information_fields(e) = standard_information_from(None)

\* the content of the STANDARD_INFORMATION attribute a, and whether its four
\* FILETIMEs are all non-zero
content_of(a) == Sub(a, U16(a, 20), SliceLen(a))

times_non_zero(a) ==
    \A k \in 0 .. 3 : \E b \in 0 .. 7 : Byte(content_of(a), 8 * k + b) # 0

\* C10: STANDARD_INFORMATION is all-or-nothing.  In the locals of the walk
\* and in every returned entry created, modified, mft_modified, accessed and
\* file_attributes are all present or all absent, and owner_id, security_id
\* and usn are present only with them; and when they are present they are
\* those of an attribute whose four FILETIMEs are all non-zero: an attribute
\* with a zero FILETIME contributes nothing.
C10_AllOrNothing ==
    /\ (pc = "walk" \/ pc = "runs") => all_or_nothing(frame)
    /\ IsSome(ret) =>
          /\ all_or_nothing(ret.v)
          /\ IsSome(ret.v.created) =>
                \E k \in 1 .. Len(visits_of(ATTR_STANDARD_INFORMATION)) :
                    LET a == attr_visited(visits_of(ATTR_STANDARD_INFORMATION)[k])
                    IN  /\ times_non_zero(a)
                        /\ ret.v.created = filetime_to_utc(Bytes(content_of(a), 0, 8))
                        /\ ret.v.modified = filetime_to_utc(Bytes(content_of(a), 8, 8))
                        /\ ret.v.mft_modified = filetime_to_utc(Bytes(content_of(a), 16, 8))
                        /\ ret.v.accessed = filetime_to_utc(Bytes(content_of(a), 24, 8))
                        /\ ret.v.file_attributes
                             = Some(from_flags(Bytes(content_of(a), 32, 4)))

\* an entry with the fields of the second STANDARD_INFORMATION attribute of
\* its record, the first having a zero FILETIME
C10_ZeroTimeSkipped ==
    /\ IsSome(ret)
    /\ IsSome(ret.v.created)
    /\ IsSome(ret.v.usn)
    /\ Len(visits_of(ATTR_STANDARD_INFORMATION)) = 2
    /\ ~times_non_zero(attr_visited(visits_of(ATTR_STANDARD_INFORMATION)[1]))


\* whether the attributes the walk dispatched lie end to end from
\* first_attr_offset, each one length bytes after the one before
walked_end_to_end ==
    \A k \in 1 .. Len(visited) :
        visited[k].offset = IF k = 1 THEN U16(record, 20)
                            ELSE visited[k - 1].offset + visited[k - 1].length

\* the DATA attributes the walk dispatched that decode to a stream: a
\* non-resident one of 64 bytes or more, a resident one whose content lies
\* within it
decoded_streams ==
    SelectSeq(visits_of(ATTR_DATA),
              LAMBDA v : IF Byte(attr_visited(v), 8) # 0
                         THEN SliceLen(attr_visited(v)) >= 64
                         ELSE IsSome(parse_resident_data(attr_visited(v))))

\* C11: an attribute with a valid header whose body does not decode, or
\* whose type is unknown, does not end the walk.  The walk never aborts; it
\* passes attribute after attribute, each by its length, until a header is
\* the end marker or invalid; and the FILE_NAME and DATA attributes that
\* decode on the way are all accumulated: the entry's names are the decoded
\* FILE_NAME attributes and its data_streams the decoded DATA attributes.
C11_SoftFailuresDoNotEndWalk ==
    /\ pc # "panic"
    /\ walked_end_to_end
    /\ pc = "ret" =>
          /\ IsNone(parse_attr_header(record, walk_offset))
          /\ IF decoded_names = << >> THEN IsNone(ret)
             ELSE /\ IsSome(ret)
                  /\ \E i \in 1 .. Len(decoded_names) :
                        /\ is_canonical(decoded_names, i)
                        /\ built_from(ret.v, decoded_names, i)
                  /\ Len(ret.v.data_streams) = Len(decoded_streams)

\* whether the sum of the deltas of runs 1..k lies outside the signed 64-bit
\* range
sum_leaves_range(a, first, k) ==
    widened(SubSeq(sum_of_deltas(a, first, k), 1, 8), 8) # sum_of_deltas(a, first, k)

\* C12: "current_lcn += delta_lcn" wraps.  When the sum of the deltas of the
\* runs leaves the signed 64-bit range the run loop does not abort: the run
\* is emitted, with cluster_offset the sum reduced modulo 2^64 into the
\* signed range, and decoding goes on.
C12_WrapsAndContinues ==
    /\ pc = "panic" => run_frame = None
    /\ \A k \in 1 .. Len(emitted_runs) :
          sum_leaves_range(runs_attr, runs_start, k) =>
              emitted_runs[k].cluster_offset
                = SubSeq(sum_of_deltas(runs_attr, runs_start, k), 1, 8)

====
